---- MODULE Spec2Model ----
(***************************************************************************)
(* A model of package gostata (stata.go and the struct-tag extraction      *)
(* file): a File that collects field descriptions and writes a Stata 113   *)
(* file, either in bulk (WriteTo / WriteFile) or record by record          *)
(* (BeginWrite .. Append* / RecordEnd .. EndWrite).                        *)
(*                                                                         *)
(* Strings and file contents are sequences of bytes (0..255).  A panic is  *)
(* a terminal outcome: ret.err = "panic" and no further operation runs.    *)
(* Numeric encodings are those of a little-endian host.                    *)
(***************************************************************************)
EXTENDS Integers, Sequences, FiniteSets, TLC

VARIABLES
    fields,      \* File.fields: the sequence of Field records
    NumVars,     \* header.NumVars (int16)
    NumObs,      \* header.NumObs (int32)
    recordSize,  \* File.recordSize
    recBuf,      \* File.recBuf: the record buffer (nil is the empty sequence)
    offset,      \* File.offset
    f,           \* File.f: 0 is nil, otherwise an index into files
    w,           \* File.w: the bufio.Writer, [fd, buf, err], fd = 0 is a nil writer
    files,       \* the files created by BeginWrite, in order: [open, data, pos]
    sink,        \* what the last bulk write (WriteTo / WriteFile) put into its sink
    ret,         \* the last operation and what it returned: [op, err]
    committed,   \* history: the successful RecordEnd calls since the last BeginWrite
    arg          \* history: the argument NewFileFromStruct was called with, if it was

vars ==
    <<fields, NumVars, NumObs, recordSize, recBuf, offset, f, w, files, sink, ret,
      committed, arg>>

----------------------------------------------------------------------------
(* Bounds of the model *)

\* fields a File may hold in the session specification
MaxFields == 1
\* fields a File may hold in the layout specification
MaxLayoutFields == 2
\* records committed by RecordEnd over the life of a File
MaxRecs == 2
\* write sessions opened by BeginWrite over the life of a File
MaxSessions == 2
\* attributes of a struct given to ExtractFields
MaxAttrs == 2

----------------------------------------------------------------------------
(* Program constants *)

stataVarSize == 33
stataFmtSize == 12
stataLabelSize == 81

StataByteId == 251
StataIntId == 252
StataLongId == 253
StataFloatId == 254
StataDoubleId == 255

\* size of the header struct as binary.Write emits it
HeaderSize == 109
\* bufio.NewWriterSize(f, 64*1012)
BufSize == 64768

----------------------------------------------------------------------------
(* Bytes and strings *)

Min(a, b) == IF a < b THEN a ELSE b

Zeros(n) == [i \in 1..n |-> 0]

\* a copy that does not stop at the end of the array
PadToUncut(s, n) == [i \in 1..(IF Len(s) > n THEN Len(s) ELSE n) |-> IF i <= Len(s) THEN s[i] ELSE 0]

\* copy(dst[:], s) into a zeroed array of n bytes: the first n bytes of s, then zeros
PadTo(s, n) == [i \in 1..n |-> IF i <= Len(s) THEN s[i] ELSE 0]

\* copy(dst[at:], src) for at <= len(dst): overwrites min(len(src), len(dst)-at) bytes
CopyAt(dst, at, src) ==
    [i \in 1..Len(dst) |->
        IF i > at /\ i <= at + Len(src) THEN src[i - at] ELSE dst[i]]

\* the n low bytes of the two's-complement integer v, least significant first
LE(v, n) == [i \in 1..n |-> (v \div (256 ^ (i - 1))) % 256]

\* a float is held as its IEEE-754 bytes, most significant first; in memory,
\* and so in the file, they are reversed
Reverse(s) == [i \in 1..Len(s) |-> s[Len(s) + 1 - i]]

\* string(typ) for a byte typ: the UTF-8 encoding of the code point typ
RuneBytes(c) == IF c < 128 THEN <<c>> ELSE <<192 + (c \div 64), 128 + (c % 64)>>

\* "%9.0g"
FmtNumeric == <<37, 57, 46, 48, 103>>
\* "%" + string(typ) + "s"
FmtString(typ) == <<37>> \o RuneBytes(typ) \o <<115>>

ToInt16(n) == ((n + 32768) % 65536) - 32768

----------------------------------------------------------------------------
(* Fields and record size *)

NoData == [kind |-> "nil", vals |-> <<>>]

Field(name, typ, label, format, data) ==
    [Name |-> name, FieldType |-> typ, Label |-> label, Format |-> format,
     data |-> data]

IsNumericId(typ) == typ \in StataByteId..StataDoubleId

\* the amount calcRecordSize's switch adds for a type code
TypeWidth(typ) ==
    CASE typ = StataByteId -> 1
      [] typ = StataIntId -> 2
      [] typ = StataLongId -> 4
      [] typ = StataFloatId -> 4
      [] typ = StataDoubleId -> 8
      [] OTHER -> typ

RECURSIVE calcRecordSize(_)
calcRecordSize(flds) ==
    IF flds = <<>> THEN 0
    ELSE calcRecordSize(SubSeq(flds, 1, Len(flds) - 1))
         + TypeWidth(flds[Len(flds)].FieldType)

\* the slice kinds AddField accepts, with the type code and width of each
SliceTyp(kind) ==
    CASE kind = "Byte" -> StataByteId
      [] kind = "Int" -> StataIntId
      [] kind = "Long" -> StataLongId
      [] kind = "Float" -> StataFloatId
      [] kind = "Double" -> StataDoubleId
      [] OTHER -> 0

SliceWidth(kind) ==
    CASE kind = "Byte" -> 1
      [] kind = "Int" -> 2
      [] kind = "Long" -> 4
      [] kind = "Float" -> 4
      [] kind = "Double" -> 8
      [] OTHER -> 0

\* the guard of the panic in AddFieldMeta's default case
MetaRejects(typ) == typ < 1 /\ typ > 244

\* an AddFieldMeta whose float case adds the width of a double
MetaRecordSizeWideFloat(rs, typ) ==
    CASE typ = StataByteId -> rs + 1
      [] typ = StataIntId -> rs + 2
      [] typ = StataLongId -> rs + 4
      [] typ = StataFloatId -> rs + 8
      [] typ = StataDoubleId -> rs + 8
      [] OTHER -> rs + typ

\* recordSize after AddFieldMeta's switch
MetaRecordSize(rs, typ) ==
    CASE typ = StataByteId -> rs + 1
      [] typ = StataIntId -> rs + 2
      [] typ = StataLongId -> rs + 4
      [] typ = StataFloatId -> rs + 4
      [] typ = StataDoubleId -> rs + 8
      [] OTHER -> rs + typ

MetaFormat(typ) == IF IsNumericId(typ) THEN FmtNumeric ELSE FmtString(typ)

\* No operation runs after a panic, nor on the nil File a failed constructor
\* returns.  A bulk write leaves the File as it was, so it is explored as the last
\* operation of a run.
Usable ==
    /\ ret.err # "panic"
    /\ ~(ret.op = "NewFileFromStruct" /\ ret.err # "nil")
    /\ ret.op \notin {"WriteTo", "WriteFile"}

AddFieldMeta(name, label, typ) ==
    /\ Usable
    /\ IF ~IsNumericId(typ) /\ MetaRejects(typ)
       THEN /\ ret' = [op |-> "AddFieldMeta", err |-> "panic"]
            /\ UNCHANGED <<fields, NumVars, recordSize>>
       ELSE /\ recordSize' = MetaRecordSize(recordSize, typ)
            /\ fields' = Append(fields,
                                Field(name, typ, label, MetaFormat(typ), NoData))
            /\ NumVars' = ToInt16(NumVars + 1)
            /\ ret' = [op |-> "AddFieldMeta", err |-> "nil"]
    /\ UNCHANGED <<NumObs, recBuf, offset, f, w, files, sink, committed, arg>>

AddField(name, label, slice) ==
    /\ Usable
    /\ IF SliceTyp(slice.kind) = 0
       THEN /\ ret' = [op |-> "AddField", err |-> "panic"]
            /\ UNCHANGED <<fields, NumVars, NumObs, recordSize>>
       ELSE /\ recordSize' = recordSize + SliceWidth(slice.kind)
            /\ fields' = Append(fields,
                                Field(name, SliceTyp(slice.kind), label,
                                      FmtNumeric, slice))
            /\ NumVars' = ToInt16(NumVars + 1)
            /\ NumObs' = IF Len(slice.vals) > NumObs THEN Len(slice.vals)
                         ELSE NumObs
            /\ ret' = [op |-> "AddField", err |-> "nil"]
    /\ UNCHANGED <<recBuf, offset, f, w, files, sink, committed, arg>>

----------------------------------------------------------------------------
(* Header and descriptors *)

\* "Written by VDEC Stata File Creator"
DataLabel ==
    <<87, 114, 105, 116, 116, 101, 110, 32, 98, 121, 32, 86, 68, 69, 67,
      32, 83, 116, 97, 116, 97, 32, 70, 105, 108, 101, 32, 67, 114, 101,
      97, 116, 111, 114>>

\* time.Now().Format("02 Jan 2006 15:04") at construction, here "02 Nov 2026 03:43"
TimeStamp ==
    <<48, 50, 32, 78, 111, 118, 32, 50, 48, 50, 54, 32, 48, 51, 58, 52, 51>>

\* the DataLabel and TimeStamp arrays of the header
HeaderTexts == PadTo(DataLabel, stataLabelSize) \o PadTo(TimeStamp, 18)

\* binary.Write(w, littleEndian, *sf.header)
HeaderBytes(nv, nobs) ==
    <<113, 2, 1, 0>> \o LE(nv, 2) \o LE(nobs, 4) \o HeaderTexts

\* the bytes binary.Write emits for a list of fixed-size arrays: the slots, in order
RECURSIVE ConcatSlots(_)
ConcatSlots(slots) ==
    IF slots = <<>> THEN <<>>
    ELSE ConcatSlots(SubSeq(slots, 1, Len(slots) - 1)) \o slots[Len(slots)]

\* the lists writeDescriptors fills from the fields; a list made for nv entries
\* keeps zeros in the entries past the last field
typList(flds, nv) ==
    [i \in 1..nv |-> IF i <= Len(flds) THEN flds[i].FieldType ELSE 0]

varSlot(flds, i) ==
    IF i <= Len(flds) THEN PadTo(flds[i].Name, stataVarSize) ELSE Zeros(stataVarSize)

fmtSlot(flds, i) ==
    IF i <= Len(flds) THEN PadTo(flds[i].Format, stataFmtSize) ELSE Zeros(stataFmtSize)

\* a writeDescriptors that copies the Label into lblList as well
lblSlotFromLabel(flds, i) ==
    IF i <= Len(flds) THEN PadTo(flds[i].Label, stataVarSize) ELSE Zeros(stataVarSize)

\* lblList is made and written but never filled
lblSlot(flds, i) == Zeros(stataVarSize)

vlblSlot(flds, i) ==
    IF i <= Len(flds) THEN PadTo(flds[i].Label, stataLabelSize)
    ELSE Zeros(stataLabelSize)

\* the bytes writeDescriptors writes, for Len(flds) <= nv
DescriptorBytes(flds, nv) ==
    typList(flds, nv)
        \o ConcatSlots([i \in 1..nv |-> varSlot(flds, i)])
        \o Zeros(2 * (nv + 1))
        \o ConcatSlots([i \in 1..nv |-> fmtSlot(flds, i)])
        \o ConcatSlots([i \in 1..nv |-> lblSlot(flds, i)])
        \o ConcatSlots([i \in 1..nv |-> vlblSlot(flds, i)])
        \o Zeros(5)

----------------------------------------------------------------------------
(* The file behind an *os.File, and the bufio.Writer over it *)

NewOSFile == [open |-> TRUE, data |-> <<>>, pos |-> 0]

NoWriter == [fd |-> 0, buf |-> <<>>, err |-> FALSE]

\* a write that goes to the end of the file, wherever its position is
DataAfterWriteAtEnd(fl, p) == fl.data \o p

\* the bytes of a file after writing p at its position
DataAfterWrite(fl, p) ==
    [i \in 1..(IF fl.pos + Len(p) > Len(fl.data) THEN fl.pos + Len(p)
               ELSE Len(fl.data)) |->
        IF i > fl.pos /\ i <= fl.pos + Len(p) THEN p[i - fl.pos] ELSE fl.data[i]]

\* (*os.File).Write: fails on a closed file, or when the system call fails (~ioOK)
FileWrite(fls, fd, p, ioOK) ==
    IF fls[fd].open /\ ioOK
    THEN [files |-> [fls EXCEPT ![fd] = [open |-> TRUE,
                                         data |-> DataAfterWrite(fls[fd], p),
                                         pos |-> fls[fd].pos + Len(p)]],
          err |-> FALSE]
    ELSE [files |-> fls, err |-> TRUE]

\* (*bufio.Writer).Flush: a writer that failed once keeps failing
Flush(wr, fls, ioOK) ==
    IF wr.err THEN [w |-> wr, files |-> fls, err |-> TRUE]
    ELSE IF wr.buf = <<>> THEN [w |-> wr, files |-> fls, err |-> FALSE]
    ELSE LET r == FileWrite(fls, wr.fd, wr.buf, ioOK)
         IN  IF r.err THEN [w |-> [wr EXCEPT !.err = TRUE], files |-> fls, err |-> TRUE]
             ELSE [w |-> [wr EXCEPT !.buf = <<>>], files |-> r.files, err |-> FALSE]

\* (*bufio.Writer).Write: p is buffered; a full buffer is flushed, and p is written
\* straight to the file when it does not fit an empty buffer
RECURSIVE BufWrite(_, _, _, _)
BufWrite(wr, fls, p, ioOK) ==
    IF wr.err THEN [w |-> wr, files |-> fls, err |-> TRUE]
    ELSE IF Len(p) <= BufSize - Len(wr.buf)
    THEN [w |-> [wr EXCEPT !.buf = wr.buf \o p], files |-> fls, err |-> FALSE]
    ELSE IF wr.buf = <<>>
    THEN LET r == FileWrite(fls, wr.fd, p, ioOK)
         IN  [w |-> [wr EXCEPT !.err = r.err], files |-> r.files, err |-> r.err]
    ELSE LET n == BufSize - Len(wr.buf)
             r == Flush([wr EXCEPT !.buf = wr.buf \o SubSeq(p, 1, n)], fls, ioOK)
         IN  IF r.err THEN r
             ELSE BufWrite(r.w, r.files, SubSeq(p, n + 1, Len(p)), ioOK)

----------------------------------------------------------------------------
(* The record-by-record write session *)

\* what the model keeps of the file of an earlier session once a new file is
\* created: whether its handle is still open (nothing refers to it any more)
Forgotten(fl) == [open |-> fl.open, data |-> <<>>, pos |-> 0]

\* a BeginWrite that leaves the record buffer of the session before
MakeRecBufKept(rs) == recBuf

\* sf.recBuf = make([]byte, sf.recordSize)
MakeRecBuf(rs) == Zeros(rs)

\* BeginWrite(fileName); every session writes a file of its own name
BeginWrite(createOK, ioOK) ==
    /\ Usable
    /\ Len(files) < MaxSessions
    /\ IF ~createOK
       THEN /\ f' = 0
            /\ ret' = [op |-> "BeginWrite", err |-> "create"]
            /\ UNCHANGED <<NumVars, recBuf, offset, w, files, committed>>
       ELSE LET fd == Len(files) + 1
                fls == Append([i \in 1..Len(files) |-> Forgotten(files[i])], NewOSFile)
                nv == ToInt16(Len(fields))
                r1 == BufWrite([fd |-> fd, buf |-> <<>>, err |-> FALSE], fls,
                               HeaderBytes(nv, NumObs), ioOK)
                r2 == BufWrite(r1.w, r1.files, DescriptorBytes(fields, nv), ioOK)
            IN  /\ f' = fd
                /\ NumVars' = nv
                /\ IF r1.err
                   THEN /\ w' = r1.w
                        /\ files' = r1.files
                        /\ ret' = [op |-> "BeginWrite", err |-> "write"]
                        /\ UNCHANGED <<recBuf, offset, committed>>
                   ELSE IF Len(fields) > nv
                   THEN /\ w' = r1.w
                        /\ files' = r1.files
                        /\ ret' = [op |-> "BeginWrite", err |-> "panic"]
                        /\ UNCHANGED <<recBuf, offset, committed>>
                   ELSE IF r2.err
                   THEN /\ w' = r2.w
                        /\ files' = r2.files
                        /\ ret' = [op |-> "BeginWrite", err |-> "write"]
                        /\ UNCHANGED <<recBuf, offset, committed>>
                   ELSE /\ w' = r2.w
                        /\ files' = r2.files
                        /\ recBuf' = MakeRecBuf(recordSize)
                        /\ offset' = 0
                        /\ committed' = 0
                        /\ ret' = [op |-> "BeginWrite", err |-> "nil"]
    /\ UNCHANGED <<fields, NumObs, recordSize, sink, arg>>

\* RecordEnd: a nil writer is dereferenced (panic); otherwise the count goes up
\* whether or not the write succeeded
RecordEnd(ioOK) ==
    /\ Usable
    /\ NumObs < MaxRecs
    /\ IF w.fd = 0
       THEN /\ ret' = [op |-> "RecordEnd", err |-> "panic"]
            /\ UNCHANGED <<NumObs, offset, w, files, committed>>
       ELSE LET r == BufWrite(w, files, recBuf, ioOK)
            IN  /\ w' = r.w
                /\ files' = r.files
                /\ offset' = 0
                /\ NumObs' = NumObs + 1
                /\ committed' = IF r.err THEN committed ELSE committed + 1
                /\ ret' = [op |-> "RecordEnd",
                           err |-> IF r.err THEN "write" ELSE "nil"]
    /\ UNCHANGED <<fields, NumVars, recordSize, recBuf, f, sink, arg>>

\* (*os.File).Seek(0, io.SeekStart) on sf.f: fails on a nil or closed file
SeekFails(fls, fd, ioOK) == fd = 0 \/ ~fls[fd].open \/ ~ioOK

\* EndWrite; io names the system call that fails, if any
EndWrite(io) ==
    /\ Usable
    /\ IF w.fd = 0
       THEN /\ ret' = [op |-> "EndWrite", err |-> "panic"]
            /\ UNCHANGED <<NumVars, w, files>>
       ELSE LET r1 == Flush(w, files, io # "flush")
                nv == ToInt16(Len(fields))
                fls2 == [r1.files EXCEPT ![f].pos = 0]
                r3 == BufWrite(r1.w, fls2, HeaderBytes(nv, NumObs), TRUE)
                r4 == Flush(r3.w, r3.files, io # "flush2")
            IN  IF r1.err
                THEN /\ w' = r1.w
                     /\ files' = r1.files
                     /\ ret' = [op |-> "EndWrite", err |-> "flush"]
                     /\ UNCHANGED NumVars
                ELSE IF SeekFails(r1.files, f, io # "seek")
                THEN /\ w' = r1.w
                     /\ files' = r1.files
                     /\ ret' = [op |-> "EndWrite", err |-> "seek"]
                     /\ UNCHANGED NumVars
                ELSE IF r3.err
                THEN /\ w' = r3.w
                     /\ files' = r3.files
                     /\ NumVars' = nv
                     /\ ret' = [op |-> "EndWrite", err |-> "write"]
                ELSE IF r4.err
                THEN /\ w' = r4.w
                     /\ files' = r4.files
                     /\ NumVars' = nv
                     /\ ret' = [op |-> "EndWrite", err |-> "flush2"]
                ELSE /\ w' = r4.w
                     /\ files' = [r4.files EXCEPT ![f].open = FALSE]
                     /\ NumVars' = nv
                     /\ ret' = [op |-> "EndWrite",
                                err |-> IF io = "close" THEN "close" ELSE "nil"]
    /\ UNCHANGED <<fields, NumObs, recordSize, recBuf, offset, f, sink, committed, arg>>

----------------------------------------------------------------------------
(* Appending values to the record buffer *)

\* the state after an Append*: the buffer, the offset and the outcome
AppendResult(op, buf, off, panics) ==
    /\ recBuf' = buf
    /\ offset' = off
    /\ ret' = [op |-> op, err |-> IF panics THEN "panic" ELSE "nil"]
    /\ UNCHANGED <<fields, NumVars, NumObs, recordSize, f, w, files, sink, committed, arg>>

\* recBuf[offset] = b: an index past the end panics
SetByte(buf, off, b) == [buf EXCEPT ![off + 1] = b]

AppendByte(v) ==
    /\ Usable
    /\ IF offset >= Len(recBuf)
       THEN AppendResult("AppendByte", recBuf, offset, TRUE)
       ELSE AppendResult("AppendByte", SetByte(recBuf, offset, v % 256),
                         offset + 1, FALSE)

\* the second store of AppendInt panics after the first one went through
AppendInt(v) ==
    /\ Usable
    /\ IF offset >= Len(recBuf)
       THEN AppendResult("AppendInt", recBuf, offset, TRUE)
       ELSE IF offset + 1 >= Len(recBuf)
       THEN AppendResult("AppendInt", SetByte(recBuf, offset, v % 256),
                         offset + 1, TRUE)
       ELSE AppendResult("AppendInt",
                         SetByte(SetByte(recBuf, offset, v % 256), offset + 1,
                                 (v \div 256) % 256),
                         offset + 2, FALSE)

\* a copy that starts one byte after the offset
AppendCopyShifted(op, src, n) ==
    /\ Usable
    /\ IF offset > Len(recBuf)
       THEN AppendResult(op, recBuf, offset, TRUE)
       ELSE AppendResult(op, CopyAt(recBuf, offset + 1, src), offset + n, FALSE)

\* copy(sf.recBuf[sf.offset:], src); sf.offset += n: the slice expression panics
\* when offset is past the end of the buffer
AppendCopy(op, src, n) ==
    /\ Usable
    /\ IF offset > Len(recBuf)
       THEN AppendResult(op, recBuf, offset, TRUE)
       ELSE AppendResult(op, CopyAt(recBuf, offset, src), offset + n, FALSE)

AppendLong(v) == AppendCopy("AppendLong", LE(v, 4), 4)

\* v holds the IEEE-754 bytes of the value, most significant first
AppendFloat(v) == AppendCopy("AppendFloat", Reverse(v), 4)

AppendDouble(v) == AppendCopy("AppendDouble", Reverse(v), 8)

\* copies all of v, whatever n is
AppendStringN(v, n) == AppendCopy("AppendStringN", v, n)

\* v[:n] panics when n is past the end of v (a slice whose capacity is its length)
AppendBytesN(v, n) ==
    /\ Usable
    /\ IF n > Len(v) \/ offset > Len(recBuf)
       THEN AppendResult("AppendBytesN", recBuf, offset, TRUE)
       ELSE AppendResult("AppendBytesN", CopyAt(recBuf, offset, SubSeq(v, 1, n)),
                         offset + n, FALSE)

----------------------------------------------------------------------------
(* Bulk writing: writeData, WriteTo, WriteFile *)

\* f.data.([]T)[i] for the slice kind the type code asks for: the assertion panics
\* on any other data, the index on a slice of i elements or fewer
DataPanics(fld, kind, i) == fld.data.kind # kind \/ i >= Len(fld.data.vals)

\* one field of row i (from 0) encoded into bs at off: [st, bs, off]
EncodeField(fld, i, bs, off) ==
    LET typ == fld.FieldType
        v == fld.data.vals[i + 1]
        panic == [st |-> "panic", bs |-> bs, off |-> off]
        copied(src, n) ==
            IF off > Len(bs) THEN panic
            ELSE [st |-> "ok", bs |-> CopyAt(bs, off, src), off |-> off + n]
    IN  CASE typ = StataByteId ->
               IF DataPanics(fld, "Byte", i) \/ off >= Len(bs) THEN panic
               ELSE [st |-> "ok", bs |-> SetByte(bs, off, v % 256), off |-> off + 1]
          [] typ = StataIntId ->
               IF DataPanics(fld, "Int", i) \/ off + 1 >= Len(bs) THEN panic
               ELSE [st |-> "ok",
                     bs |-> SetByte(SetByte(bs, off, v % 256), off + 1,
                                    (v \div 256) % 256),
                     off |-> off + 2]
          [] typ = StataLongId ->
               IF DataPanics(fld, "Long", i) THEN panic ELSE copied(LE(v, 4), 4)
          [] typ = StataFloatId ->
               IF DataPanics(fld, "Float", i) THEN panic ELSE copied(Reverse(v), 4)
          [] typ = StataDoubleId ->
               IF DataPanics(fld, "Double", i) THEN panic ELSE copied(Reverse(v), 8)
          [] OTHER -> [st |-> "unsupported", bs |-> bs, off |-> off]

\* a row loop that encodes every field at the offset of the first
RECURSIVE EncodeRowNoAdvance(_, _, _, _, _)
EncodeRowNoAdvance(flds, k, i, bs, off) ==
    IF k > Len(flds) THEN [st |-> "ok", bs |-> bs, off |-> off]
    ELSE LET r == EncodeField(flds[k], i, bs, off)
         IN  IF r.st # "ok" THEN r ELSE EncodeRowNoAdvance(flds, k + 1, i, r.bs, off)

\* the fields from the k-th on, encoded for row i
RECURSIVE EncodeRow(_, _, _, _, _)
EncodeRow(flds, k, i, bs, off) ==
    IF k > Len(flds) THEN [st |-> "ok", bs |-> bs, off |-> off]
    ELSE LET r == EncodeField(flds[k], i, bs, off)
         IN  IF r.st # "ok" THEN r ELSE EncodeRow(flds, k + 1, i, r.bs, r.off)

\* the rows from i on; out is what the sink has taken so far
RECURSIVE WriteRows(_, _, _, _, _, _)
WriteRows(flds, nobs, i, bs, out, sinkOK) ==
    IF i >= nobs THEN [err |-> "nil", out |-> out]
    ELSE LET r == EncodeRow(flds, 1, i, bs, 0)
         IN  IF r.st = "panic" THEN [err |-> "panic", out |-> out]
             ELSE IF r.st = "unsupported" THEN [err |-> "unsupported", out |-> out]
             ELSE IF ~sinkOK THEN [err |-> "write", out |-> out]
             ELSE WriteRows(flds, nobs, i + 1, r.bs, out \o r.bs, sinkOK)

\* a writeData that looks for fields before it looks at NumObs
writeDataFieldsFirst(flds, nobs, rsize, sinkOK) ==
    IF Len(flds) = 0 THEN [err |-> "nofields", out |-> <<>>]
    ELSE IF nobs = 0 THEN [err |-> "nil", out |-> <<>>]
    ELSE WriteRows(flds, nobs, 0, Zeros(rsize), <<>>, sinkOK)

writeData(flds, nobs, rsize, sinkOK) ==
    IF nobs = 0 THEN [err |-> "nil", out |-> <<>>]
    ELSE IF Len(flds) = 0 THEN [err |-> "nofields", out |-> <<>>]
    ELSE WriteRows(flds, nobs, 0, Zeros(rsize), <<>>, sinkOK)

\* WriteTo(w): sink is what w received; sinkOK is whether w accepts writes
WriteTo(sinkOK) ==
    /\ Usable
    /\ LET r == writeData(fields, NumObs, recordSize, sinkOK)
       IN  /\ sink' = r.out
           /\ ret' = [op |-> "WriteTo", err |-> r.err]
    /\ UNCHANGED <<fields, NumVars, NumObs, recordSize, recBuf, offset, f, w, files,
                 committed, arg>>

\* WriteFile(fileName): sink is the content of the file it leaves.  The records
\* stay in the bufio.Writer (they are fewer than BufSize bytes here) until the
\* Flush, whose error is dropped; a failed or panicking writeData flushes nothing.
WriteFile(io) ==
    /\ Usable
    /\ IF io = "create"
       THEN /\ sink' = <<>>
            /\ ret' = [op |-> "WriteFile", err |-> "create"]
       ELSE LET r == writeData(fields, NumObs, recordSize, TRUE)
            IN  IF r.err # "nil"
                THEN /\ sink' = <<>>
                     /\ ret' = [op |-> "WriteFile", err |-> r.err]
                ELSE /\ sink' = IF io = "flush" THEN <<>> ELSE r.out
                     /\ ret' = [op |-> "WriteFile",
                                err |-> IF io = "close" THEN "close" ELSE "nil"]
    /\ UNCHANGED <<fields, NumVars, NumObs, recordSize, recBuf, offset, f, w, files,
                 committed, arg>>

----------------------------------------------------------------------------
(* Struct extraction: convertTyp, goTypeToStataType, ExtractFields *)

HasPrefix(s, p) == Len(s) >= Len(p) /\ SubSeq(s, 1, Len(p)) = p

IsDigit(c) == c \in 48..57

\* the value of a string of digits
RECURSIVE DigitsValue(_)
DigitsValue(s) ==
    IF s = <<>> THEN 0
    ELSE 10 * DigitsValue(SubSeq(s, 1, Len(s) - 1)) + (s[Len(s)] - 48)

\* strconv.Atoi: an optional sign, then one digit or more; [ok, n]
Atoi(s) ==
    LET signed == Len(s) > 0 /\ s[1] \in {43, 45}
        digits == IF signed THEN SubSeq(s, 2, Len(s)) ELSE s
    IN  IF digits = <<>> \/ \E i \in 1..Len(digits) : ~IsDigit(digits[i])
        THEN [ok |-> FALSE, n |-> 0]
        ELSE [ok |-> TRUE,
              n |-> IF signed /\ s[1] = 45 THEN 0 - DigitsValue(digits)
                    ELSE DigitsValue(digits)]

StrPrefix == <<115, 116, 114>>
TypByte == <<98, 121, 116, 101>>
TypInt == <<105, 110, 116>>
TypLong == <<108, 111, 110, 103>>
TypFloat == <<102, 108, 111, 97, 116>>
TypDouble == <<100, 111, 117, 98, 108, 101>>

\* convertTyp: [ok, typ]
convertTyp(typStr) ==
    IF HasPrefix(typStr, StrPrefix)
    THEN LET a == Atoi(SubSeq(typStr, Len(StrPrefix) + 1, Len(typStr)))
         IN  IF ~a.ok THEN [ok |-> FALSE, typ |-> 0]
             ELSE IF a.n < 1 \/ a.n > 244 THEN [ok |-> FALSE, typ |-> 0]
             ELSE [ok |-> TRUE, typ |-> a.n]
    ELSE CASE typStr = TypByte -> [ok |-> TRUE, typ |-> 251]
           [] typStr = TypInt -> [ok |-> TRUE, typ |-> 252]
           [] typStr = TypLong -> [ok |-> TRUE, typ |-> 253]
           [] typStr = TypFloat -> [ok |-> TRUE, typ |-> 254]
           [] typStr = TypDouble -> [ok |-> TRUE, typ |-> 255]
           [] OTHER -> [ok |-> FALSE, typ |-> 0]

\* goTypeToStataType, by the reflect.Kind of the attribute: [ok, str]
goTypeToStataType(kind) ==
    CASE kind = "int8" -> [ok |-> TRUE, str |-> TypByte]
      [] kind = "int16" -> [ok |-> TRUE, str |-> TypInt]
      [] kind \in {"int32", "int64"} -> [ok |-> TRUE, str |-> TypLong]
      [] kind = "float32" -> [ok |-> TRUE, str |-> TypFloat]
      [] kind = "float64" -> [ok |-> TRUE, str |-> TypDouble]
      [] OTHER -> [ok |-> FALSE, str |-> <<>>]

\* strings.ToLower on ASCII
ToLower(s) == [i \in 1..Len(s) |-> IF s[i] \in 65..90 THEN s[i] + 32 ELSE s[i]]

\* parseStataTag(tag)[key].  A tag is held as its "key:value" parts, trimmed, in
\* order (a part without a colon is dropped by the parser); a later part wins and
\* a missing key reads as the empty string.
RECURSIVE TagGet(_, _)
TagGet(tag, key) ==
    IF tag = <<>> THEN <<>>
    ELSE IF tag[Len(tag)].key = key THEN tag[Len(tag)].val
    ELSE TagGet(SubSeq(tag, 1, Len(tag) - 1), key)

ScalarData == [kind |-> "scalar", vals |-> <<>>]

\* the loop of ExtractFields from attribute i on; rvValid is whether rv is a
\* valid reflect.Value (it is not after Elem() of a nil pointer)
RECURSIVE ExtractFrom(_, _, _, _)
ExtractFrom(attrs, i, acc, rvValid) ==
    IF i > Len(attrs)
    THEN IF acc = <<>> THEN [err |-> "nofields", fields |-> <<>>]
         ELSE [err |-> "nil", fields |-> acc]
    ELSE LET a == attrs[i]
             tagName == TagGet(a.tag, "name")
             name == IF tagName = <<>> THEN ToLower(a.Name) ELSE tagName
             tagLabel == TagGet(a.tag, "label")
             label == IF tagLabel = <<>> THEN name ELSE tagLabel
             t == TagGet(a.tag, "typ")
             inferred == goTypeToStataType(a.kind)
             typStr == IF t # <<>> THEN t ELSE inferred.str
             conv == convertTyp(typStr)
         IN  IF t = <<>> /\ ~inferred.ok THEN [err |-> "field", fields |-> <<>>]
             ELSE IF ~conv.ok THEN [err |-> "field", fields |-> <<>>]
             ELSE IF ~rvValid \/ ~a.exported THEN [err |-> "panic", fields |-> <<>>]
             ELSE ExtractFrom(attrs, i + 1,
                              Append(acc, Field(name, conv.typ, label,
                                                TagGet(a.tag, "format"), ScalarData)),
                              rvValid)

\* ExtractFields(v) for v = [shape, attrs]: a struct, a pointer to one ("ptr"), a
\* nil pointer to one ("nilptr"), the nil interface ("nil"), or anything else
ExtractFields(v) ==
    CASE v.shape = "nil" -> [err |-> "panic", fields |-> <<>>]
      [] v.shape = "struct" -> ExtractFrom(v.attrs, 1, <<>>, TRUE)
      [] v.shape = "ptr" -> ExtractFrom(v.attrs, 1, <<>>, TRUE)
      [] v.shape = "nilptr" -> ExtractFrom(v.attrs, 1, <<>>, FALSE)
      [] OTHER -> [err |-> "notstruct", fields |-> <<>>]

\* NewFileFromStruct(data) in place of NewFile(): only as the first operation
NewFileFromStruct(v) ==
    /\ ret = [op |-> "NewFile", err |-> "nil"]
    /\ LET r == ExtractFields(v)
       IN  IF r.err # "nil"
           THEN /\ ret' = [op |-> "NewFileFromStruct", err |-> r.err]
                /\ UNCHANGED <<fields, recordSize>>
           ELSE /\ fields' = r.fields
                /\ recordSize' = calcRecordSize(r.fields)
                /\ ret' = [op |-> "NewFileFromStruct", err |-> "nil"]
    /\ arg' = v
    /\ UNCHANGED <<NumVars, NumObs, recBuf, offset, f, w, files, sink, committed>>

----------------------------------------------------------------------------
(* Inputs *)

\* a string of n distinct-looking bytes: 'b', 'c', ..
Text(n) == [i \in 1..n |-> 97 + (i % 26)]

\* "a" and "a field"
NameA == <<97>>
LabelA == <<97, 32, 102, 105, 101, 108, 100>>

\* AddFieldMeta's arguments <<name, label, typ>>: string codes, the five numeric
\* codes and codes that are neither; short texts, texts longer than every slot,
\* a label between the two label slot widths, an empty label
LayoutMetas ==
    { <<NameA, LabelA, 0>>, <<NameA, LabelA, 2>>, <<Text(40), Text(90), 244>>,
      <<NameA, Text(40), 250>>, <<NameA, <<>>, 251>>, <<Text(40), LabelA, 252>>,
      <<NameA, Text(90), 253>>, <<NameA, LabelA, 254>>, <<NameA, Text(40), 255>> }

\* type code of the fields of a write session: byte
SessionTyps == {251}

\* 6.5 as a float32 and as a float64: IEEE-754 bytes, most significant first
Float65 == <<64, 208, 0, 0>>
Double65 == <<64, 26, 0, 0, 0, 0, 0, 0>>

Slice(kind, vals) == [kind |-> kind, vals |-> vals]

\* a data slice of one row
SessionSlices == { Slice("Byte", <<1>>) }

LayoutSlices ==
    { Slice("Byte", <<-1>>), Slice("Int", <<300, -2>>), Slice("Long", <<6000000>>),
      Slice("Float", <<Float65>>), Slice("Double", <<Double65, Double65>>),
      Slice("String", <<NameA>>) }

Part(key, val) == [key |-> key, val |-> val]

Attr(name, kind, exported, tag) ==
    [Name |-> name, kind |-> kind, exported |-> exported, tag |-> tag]

\* struct { A string `stata:"name:Alpha,label:First Field,typ:str10,format:%9s"`
\*          B int    `stata:"typ:int"` }
StructAB ==
    [shape |-> "struct",
     attrs |-> << Attr(<<65>>, "string", TRUE,
                       << Part("name", <<65, 108, 112, 104, 97>>),
                          Part("label", <<70, 105, 114, 115, 116, 32, 70, 105, 101, 108, 100>>),
                          Part("typ", <<115, 116, 114, 49, 48>>),
                          Part("format", <<37, 57, 115>>) >>),
                  Attr(<<66>>, "int", TRUE, << Part("typ", TypInt) >>) >>]

\* struct { X int8 } : no tag at all
StructX == [shape |-> "struct", attrs |-> << Attr(<<88>>, "int8", TRUE, <<>>) >>]

\* &struct { X int8 }
PtrStructX == [shape |-> "ptr", attrs |-> StructX.attrs]

\* struct { S string } : a string with no typ
StructS ==
    [shape |-> "struct", attrs |-> << Attr(<<83>>, "string", TRUE, <<>>) >>]

\* an int
NotAStruct == [shape |-> "other", attrs |-> <<>>]

\* struct { L int8 `stata:"name:<40 bytes>,label:<90 bytes>,format:<20 bytes>"`
\*          M int16 `stata:"format:%9s"` }
\* : texts longer than every descriptor slot, beside an attribute with short ones
StructLong ==
    [shape |-> "struct",
     attrs |-> << Attr(<<76>>, "int8", TRUE,
                       << Part("name", Text(40)), Part("label", Text(90)),
                          Part("format", Text(20)) >>),
                  Attr(<<77>>, "int16", TRUE, << Part("format", <<37, 57, 115>>) >>) >>]

\* no struct was given: the File comes from NewFile()
NoStruct == [shape |-> "none", attrs |-> <<>>]

SessionStructs == { StructX }

LayoutStructs == { StructAB, StructX, PtrStructX, StructS, NotAStruct, StructLong }

IOFailures == {"none", "flush", "seek", "flush2", "close"}

\* texts of struct tags: "Beta", "str245", "str0", "strx", "text"
TagBeta == <<66, 101, 116, 97>>
TagStr245 == <<115, 116, 114, 50, 52, 53>>
TagStr0 == <<115, 116, 114, 48>>
TagStrX == <<115, 116, 114, 120>>
TagText == <<116, 101, 120, 116>>

\* attributes of every inferred kind, with and without name, label and typ
\* tags; a string and an int without typ; typ tags that are out of range, not a
\* number and unknown; an unexported attribute
ExtractAttrs ==
    { Attr(<<88>>, "int8", TRUE, <<>>),
      Attr(<<72>>, "int16", TRUE, << Part("label", LabelA) >>),
      Attr(<<73>>, "int32", TRUE, <<>>),
      Attr(<<71>>, "int64", TRUE, <<>>),
      Attr(<<70>>, "float32", TRUE, <<>>),
      Attr(<<68>>, "float64", TRUE, << Part("name", TagBeta) >>),
      Attr(<<90>>, "string", TRUE, <<>>),
      Attr(<<89>>, "int", TRUE, << Part("name", TagBeta), Part("label", LabelA) >>),
      StructAB.attrs[1],
      StructAB.attrs[2],
      Attr(<<66>>, "bool", TRUE, << Part("typ", TypByte) >>),
      Attr(<<75>>, "int8", TRUE, << Part("typ", TagStr245) >>),
      Attr(<<78>>, "int8", TRUE, << Part("typ", TagStr0) >>),
      Attr(<<83>>, "int8", TRUE, << Part("typ", TagStrX) >>),
      Attr(<<84>>, "int8", TRUE, << Part("typ", TagText) >>),
      Attr(<<117>>, "int8", FALSE, <<>>) }

\* the attribute lists of structs with MaxAttrs attributes or fewer
AttrLists == UNION { [1..n -> ExtractAttrs] : n \in 0..MaxAttrs }

\* what ExtractFields is given: structs, pointers to them, nil pointers to them,
\* the nil interface, an int, a pointer to an int
ExtractInputs ==
    { [shape |-> s, attrs |-> a] : s \in {"struct", "ptr", "nilptr"}, a \in AttrLists }
    \cup { [shape |-> "nil", attrs |-> <<>>], NotAStruct,
           [shape |-> "ptrother", attrs |-> <<>>] }

----------------------------------------------------------------------------
(* Specifications *)

\* NewFile()
Init ==
    /\ fields = <<>>
    /\ NumVars = 0
    /\ NumObs = 0
    /\ recordSize = 0
    /\ recBuf = <<>>
    /\ offset = 0
    /\ f = 0
    /\ w = NoWriter
    /\ files = <<>>
    /\ sink = <<>>
    /\ ret = [op |-> "NewFile", err |-> "nil"]
    /\ committed = 0
    /\ arg = NoStruct

\* the offset at which field k starts in a record
RECURSIVE FieldOffset(_, _)
FieldOffset(flds, k) ==
    IF k <= 1 THEN 0
    ELSE FieldOffset(flds, k - 1) + TypeWidth(flds[k - 1].FieldType)

\* the caller appends the fields of a row in declared order: the next value to
\* append is that of the field that starts at the current offset
NextFieldIs(typ) ==
    \E k \in 1..Len(fields) :
        FieldOffset(fields, k) = offset /\ fields[k].FieldType = typ

\* the caller commits a row once it has appended a value for every field
RowComplete == offset = recordSize

\* the life of a File through write sessions, with byte fields only
Next ==
    \/ \E typ \in SessionTyps :
          Len(fields) < MaxFields /\ AddFieldMeta(NameA, LabelA, typ)
    \/ \E slice \in SessionSlices :
          Len(fields) < MaxFields /\ AddField(NameA, LabelA, slice)
    \/ \E v \in SessionStructs : NewFileFromStruct(v)
    \/ \E createOK \in BOOLEAN : BeginWrite(createOK, TRUE)
    \/ NextFieldIs(StataByteId) /\ AppendByte(1)
    \/ RowComplete /\ RecordEnd(TRUE)
    \/ \E io \in IOFailures : EndWrite(io)

Spec == Init /\ [][Next]_vars

\* the layout of a File for every kind of field: the fields, the header and
\* descriptors of one session, its records, and the bulk write
NextLayout ==
    \/ \E m \in LayoutMetas :
          Len(fields) < MaxLayoutFields /\ AddFieldMeta(m[1], m[2], m[3])
    \/ \E slice \in LayoutSlices :
          Len(fields) < MaxLayoutFields /\ AddField(NameA, LabelA, slice)
    \/ \E v \in LayoutStructs : NewFileFromStruct(v)
    \/ files = <<>> /\ BeginWrite(TRUE, TRUE)
    \/ NextFieldIs(StataByteId) /\ AppendByte(-1)
    \/ NextFieldIs(StataIntId) /\ AppendInt(999)
    \/ NextFieldIs(StataLongId) /\ AppendLong(-2)
    \/ NextFieldIs(StataFloatId) /\ AppendFloat(Float65)
    \/ NextFieldIs(StataDoubleId) /\ AppendDouble(Double65)
    \/ NextFieldIs(2) /\ AppendStringN(Text(2), 2)
    \/ NextFieldIs(2) /\ AppendBytesN(Text(2), 2)
    \/ RowComplete /\ RecordEnd(TRUE)
    \/ \E sinkOK \in BOOLEAN : WriteTo(sinkOK)
    \/ \E io \in {"none", "create", "flush", "close"} : WriteFile(io)

SpecLayout == Init /\ [][NextLayout]_vars

\* the values appended to a str2 field: "b", "bc" and "wxyz", shorter than, as
\* long as and longer than the field
StringValues == { <<98>>, <<98, 99>>, <<119, 120, 121, 122>> }

\* rows of str2 fields, written with AppendStringN and AppendBytesN
NextAppend ==
    \/ Len(fields) < MaxLayoutFields /\ AddFieldMeta(NameA, LabelA, 2)
    \/ files = <<>> /\ BeginWrite(TRUE, TRUE)
    \/ \E v \in StringValues : NextFieldIs(2) /\ AppendStringN(v, 2)
    \/ \E v \in StringValues : NextFieldIs(2) /\ AppendBytesN(v, 2)
    \/ RowComplete /\ RecordEnd(TRUE)

SpecAppend == Init /\ [][NextAppend]_vars

\* NewFileFromStruct, and with it ExtractFields, on every input
NextExtract == \E v \in ExtractInputs : NewFileFromStruct(v)

SpecExtract == Init /\ [][NextExtract]_vars

----------------------------------------------------------------------------
(* Reading a written file *)

\* the NumVars and NumObs fields of the header at the start of d
HeaderNumVars(d) == d[5] + 256 * d[6]
HeaderNumObs(d) == d[7] + 256 * d[8] + 65536 * d[9] + 16777216 * d[10]

\* the size of the descriptor section for n fields
DescriptorSize(n) == 162 * n + 7

\* EndWrite returned nil: the file of the session is complete
EndWriteDone == ret = [op |-> "EndWrite", err |-> "nil"]

\* BeginWrite has succeeded and EndWrite has not been called since: the header,
\* the descriptors and the records of the session are all in the writer's buffer
InSession ==
    /\ w.fd # 0
    /\ f = w.fd
    /\ files[f].open
    /\ files[f].data = <<>>
    /\ ~w.err
    /\ Len(w.buf) >= HeaderSize

\* the number of fields the emitted header and descriptors describe, and those
\* descriptors
EmittedNumVars == HeaderNumVars(w.buf)
EmittedDescriptors ==
    SubSeq(w.buf, HeaderSize + 1, HeaderSize + DescriptorSize(EmittedNumVars))

----------------------------------------------------------------------------
(* C1 *)

\* C1: when EndWrite returns nil, the NumObs in the header of the file it leaves
\* is the number of records RecordEnd committed in that session (0 when EndWrite
\* follows BeginWrite at once), whatever the File went through before BeginWrite.
C1_NumObsIsSessionCount ==
    EndWriteDone => HeaderNumObs(files[f].data) = committed

----------------------------------------------------------------------------
(* C2 *)

\* d is a complete file for the File as it stands: header, descriptors, then
\* NumObs records of recordSize bytes
CompleteFile(d) ==
    /\ Len(d) = HeaderSize + DescriptorSize(Len(fields)) + NumObs * recordSize
    /\ SubSeq(d, 1, HeaderSize) = HeaderBytes(Len(fields), NumObs)
    /\ SubSeq(d, HeaderSize + 1, HeaderSize + DescriptorSize(Len(fields)))
         = DescriptorBytes(fields, Len(fields))

\* C2: the file either write path leaves (WriteFile returning nil, EndWrite
\* returning nil) is the 109-byte header, then 162*NumVars + 7 bytes of
\* descriptors, then NumObs records of recordSize bytes.
C2_CompleteFileLayout ==
    /\ ret = [op |-> "WriteFile", err |-> "nil"] => CompleteFile(sink)
    /\ EndWriteDone => CompleteFile(files[f].data)

----------------------------------------------------------------------------
(* C3 *)

\* C3: whenever EndWrite returns, with nil or with an error, the handle of the
\* session's file is closed.
C3_HandleClosedAfterEndWrite ==
    (ret.op = "EndWrite" /\ ret.err # "panic") => ~files[w.fd].open

----------------------------------------------------------------------------
(* C4 *)

\* C4 as claimed: all through a session, whatever is called, recordSize is the
\* length of the record buffer and the emitted descriptors are those of the
\* File's fields.
C4_LayoutFixedInSession ==
    InSession =>
        /\ recordSize = Len(recBuf)
        /\ EmittedDescriptors = DescriptorBytes(fields, Len(fields))

\* C4 as amended: all through a session the record buffer and the emitted
\* descriptors are those of the fields the File had at BeginWrite, which are the
\* first fields of the File; recordSize is the width of all the File's fields,
\* so it is the length of the buffer, and the descriptors are those of the
\* File's field list, exactly as long as no field is added during the session.
C4_LayoutFixedUnlessFieldAdded ==
    InSession =>
        LET n == EmittedNumVars
            atBegin == SubSeq(fields, 1, n)
        IN  /\ n <= Len(fields)
            /\ Len(recBuf) = calcRecordSize(atBegin)
            /\ EmittedDescriptors = DescriptorBytes(atBegin, n)
            /\ recordSize = calcRecordSize(fields)
            /\ n = Len(fields) =>
                   /\ recordSize = Len(recBuf)
                   /\ EmittedDescriptors = DescriptorBytes(fields, Len(fields))

\* a record has been committed in a session on a File with a field, none added
\* since BeginWrite
C4_Witness ==
    /\ InSession
    /\ ret = [op |-> "RecordEnd", err |-> "nil"]
    /\ Len(fields) >= 1
    /\ EmittedNumVars = Len(fields)

----------------------------------------------------------------------------
(* C5 *)

\* C5: header.NumVars is the number of fields of the File in every state.
C5_NumVarsIsFieldCount == NumVars = Len(fields)

----------------------------------------------------------------------------
(* C6 *)

IsStringCode(typ) == typ \in 1..244

IsValidCode(typ) == IsStringCode(typ) \/ typ \in {251, 252, 253, 254, 255}

\* the byte width of a type code: 1, 2, 4, 4, 8 for byte, int, long, float,
\* double, and N for the string code N
C6_ByteWidth(typ) ==
    IF typ = 251 THEN 1
    ELSE IF typ = 252 THEN 2
    ELSE IF typ \in {253, 254} THEN 4
    ELSE IF typ = 255 THEN 8
    ELSE typ

RECURSIVE C6_WidthSum(_)
C6_WidthSum(flds) ==
    IF flds = <<>> THEN 0 ELSE C6_ByteWidth(Head(flds).FieldType) + C6_WidthSum(Tail(flds))

\* C6: after any sequence of AddField and AddFieldMeta calls, and after
\* NewFileFromStruct, recordSize is what calcRecordSize gives for the File's
\* fields, and when every type code is a valid one it is the sum of the byte
\* widths of the fields.
C6_RecordSizeIsWidthSum ==
    /\ recordSize = calcRecordSize(fields)
    /\ (\A i \in 1..Len(fields) : IsValidCode(fields[i].FieldType))
          => recordSize = C6_WidthSum(fields)

\* AddField has added a numeric field after a string field
C6_Witness ==
    /\ ret = [op |-> "AddField", err |-> "nil"]
    /\ Len(fields) = 2
    /\ IsStringCode(fields[1].FieldType)
    /\ recordSize > fields[1].FieldType

----------------------------------------------------------------------------
(* C7 *)

\* C7: every field of a File has a valid type code, in 1..244 or one of 251..255
\* (AddFieldMeta adds no field for any other code).
C7_FieldCodesValid == \A i \in 1..Len(fields) : IsValidCode(fields[i].FieldType)

----------------------------------------------------------------------------
(* C8 *)

\* C8 as claimed: WriteTo on a File with no fields returns the "No fields" error
\* and writes nothing, whatever NumObs is.
C8_NoFieldsAlwaysError ==
    (ret.op = "WriteTo" /\ fields = <<>>) => (ret.err = "nofields" /\ sink = <<>>)

\* C8 as amended: WriteTo on a File with no fields writes nothing; it returns
\* the "No fields" error when NumObs is not 0, and nil when NumObs is 0.
C8_NoFieldsErrorUnlessNoObs ==
    (ret.op = "WriteTo" /\ fields = <<>>) =>
        /\ sink = <<>>
        /\ ret.err = IF NumObs = 0 THEN "nil" ELSE "nofields"

\* WriteTo has run on a File with no fields and a committed record
C8_Witness ==
    /\ ret = [op |-> "WriteTo", err |-> "nofields"]
    /\ fields = <<>>
    /\ NumObs > 0

----------------------------------------------------------------------------
(* C9 *)

\* the slice kind a numeric type code reads its data as
C9_KindOf(typ) ==
    CASE typ = 251 -> "Byte"
      [] typ = 252 -> "Int"
      [] typ = 253 -> "Long"
      [] typ = 254 -> "Float"
      [] typ = 255 -> "Double"
      [] OTHER -> "none"

\* the field holds a data slice of its kind with n values or more
C9_HasData(fld, n) ==
    fld.data.kind = C9_KindOf(fld.FieldType) /\ Len(fld.data.vals) >= n

\* the bytes of row r (from 0) of a numeric field
C9_Encoding(fld, r) ==
    LET v == fld.data.vals[r + 1]
    IN  CASE fld.FieldType = 251 -> <<v % 256>>
          [] fld.FieldType = 252 -> <<v % 256, (v \div 256) % 256>>
          [] fld.FieldType = 253 -> LE(v, 4)
          [] OTHER -> Reverse(v)

\* the sink holds NumObs records of recordSize bytes, each field of each row at
\* the running sum of the widths of the fields before it
C9_RowsEncoded ==
    /\ Len(sink) = NumObs * recordSize
    /\ \A r \in 0..(NumObs - 1) : \A k \in 1..Len(fields) :
          LET at == r * recordSize + C6_WidthSum(SubSeq(fields, 1, k - 1))
          IN  SubSeq(sink, at + 1, at + C6_ByteWidth(fields[k].FieldType))
                = C9_Encoding(fields[k], r)

\* the first field whose type code is not a numeric one, 0 when there is none
C9_FirstNonNumeric ==
    IF \A i \in 1..Len(fields) : IsNumericId(fields[i].FieldType) THEN 0
    ELSE CHOOSE i \in 1..Len(fields) :
            /\ ~IsNumericId(fields[i].FieldType)
            /\ \A j \in 1..(i - 1) : IsNumericId(fields[j].FieldType)

\* WriteTo has returned, and not with an error of the sink
C9_Returned == ret.op = "WriteTo" /\ ret.err # "write"

\* C9 as claimed, for a File whose fields all have one of the six writable kinds
\* (strings 1..244 included) and whose numeric fields hold their data: writeData
\* does not return the unsupported-field-type error; it returns nil, having
\* encoded every row.
C9_SixKindsWritable ==
    ( /\ C9_Returned
      /\ fields # <<>>
      /\ \A i \in 1..Len(fields) :
            \/ IsStringCode(fields[i].FieldType)
            \/ IsNumericId(fields[i].FieldType) /\ C9_HasData(fields[i], NumObs) )
    => (ret.err = "nil" /\ Len(sink) = NumObs * recordSize)

\* C9 as amended: writeData returns the unsupported-field-type error exactly
\* when NumObs is not 0 and the first row reaches a field whose type code is not
\* one of the five numeric codes (a string code 1..244 is not writable in bulk),
\* and then it has written nothing; for a File whose fields all have numeric
\* codes and hold data slices of NumObs values or more it encodes every row, each
\* field at the running sum of the widths before it, and returns nil; with
\* NumObs = 0 it writes nothing and returns nil.
C9_FiveKindsWritable ==
    C9_Returned =>
        LET k == C9_FirstNonNumeric
        IN  /\ NumObs = 0 => (ret.err = "nil" /\ sink = <<>>)
            /\ ( /\ NumObs # 0
                 /\ k > 0
                 /\ \A j \in 1..(k - 1) : C9_HasData(fields[j], 1) )
               => (ret.err = "unsupported" /\ sink = <<>>)
            /\ ret.err = "unsupported" => (NumObs # 0 /\ k > 0)
            /\ ( /\ NumObs # 0
                 /\ fields # <<>>
                 /\ k = 0
                 /\ \A j \in 1..Len(fields) : C9_HasData(fields[j], NumObs) )
               => (ret.err = "nil" /\ C9_RowsEncoded)

\* WriteTo has written two rows of two numeric fields
C9_Witness ==
    /\ ret = [op |-> "WriteTo", err |-> "nil"]
    /\ Len(fields) = 2
    /\ NumObs = 2
    /\ Len(sink) = 2 * recordSize
    /\ recordSize > 2

----------------------------------------------------------------------------
(* C10 *)

\* where the two label blocks start in a file with n fields: after the header,
\* the type codes, the names, the sort list and the formats
LblBlockStart(n) == HeaderSize + n + stataVarSize * n + 2 * (n + 1) + stataFmtSize * n
VlblBlockStart(n) == LblBlockStart(n) + stataVarSize * n

\* slot i of the 33-byte label block and of the 81-byte label block, as emitted
EmittedLblSlot(i) ==
    LET at == LblBlockStart(EmittedNumVars) + stataVarSize * (i - 1)
    IN  SubSeq(w.buf, at + 1, at + stataVarSize)
EmittedVlblSlot(i) ==
    LET at == VlblBlockStart(EmittedNumVars) + stataLabelSize * (i - 1)
    IN  SubSeq(w.buf, at + 1, at + stataLabelSize)

\* the first n bytes of s, then zeros up to n bytes
C10_Slot(s, n) == SubSeq(s, 1, Min(Len(s), n)) \o Zeros(n - Min(Len(s), n))

\* C10 as claimed: in the emitted descriptors, for every field i both the
\* 33-byte label slot i and the 81-byte label slot i carry the field's Label.
C10_BothLabelBlocksCarryLabel ==
    InSession =>
        \A i \in 1..EmittedNumVars :
            /\ EmittedLblSlot(i) = C10_Slot(fields[i].Label, stataVarSize)
            /\ EmittedVlblSlot(i) = C10_Slot(fields[i].Label, stataLabelSize)

\* C10 as amended: for every field i the 81-byte label slot i carries the
\* field's Label, cut or zero-padded to 81 bytes, and the 33-byte label slot i
\* is all zeros: only the 81-byte block is populated from Label.
C10_OnlyWideLabelBlockCarriesLabel ==
    InSession =>
        \A i \in 1..EmittedNumVars :
            /\ EmittedLblSlot(i) = Zeros(stataVarSize)
            /\ EmittedVlblSlot(i) = C10_Slot(fields[i].Label, stataLabelSize)

\* descriptors emitted for two fields, one with a label longer than 81 bytes and
\* one with a shorter, non-empty label
C10_Witness ==
    /\ InSession
    /\ EmittedNumVars = 2
    /\ Len(fields[1].Label) > stataLabelSize
    /\ Len(fields[2].Label) \in 1..stataLabelSize

----------------------------------------------------------------------------
(* C11 *)

\* slot i of the name block and of the format block, as emitted
EmittedVarSlot(i) ==
    LET at == HeaderSize + EmittedNumVars + stataVarSize * (i - 1)
    IN  SubSeq(w.buf, at + 1, at + stataVarSize)
EmittedFmtSlot(i) ==
    LET n == EmittedNumVars
        at == HeaderSize + n + stataVarSize * n + 2 * (n + 1) + stataFmtSize * (i - 1)
    IN  SubSeq(w.buf, at + 1, at + stataFmtSize)

\* C11: in the emitted descriptors the slots of every field are exactly 33
\* bytes of name, 12 bytes of format and 81 bytes of label: each holds the first
\* bytes of the field's string, cut at the slot width, then zeros up to the slot
\* width, whatever the length of the string; BeginWrite raises no error, and the
\* section is 162 * NumVars + 7 bytes.
C11_SlotsCutAndPadded ==
    InSession =>
        /\ Len(w.buf) >= HeaderSize + DescriptorSize(EmittedNumVars)
        /\ \A i \in 1..EmittedNumVars :
              /\ EmittedVarSlot(i) = C10_Slot(fields[i].Name, stataVarSize)
              /\ EmittedFmtSlot(i) = C10_Slot(fields[i].Format, stataFmtSize)
              /\ EmittedVlblSlot(i) = C10_Slot(fields[i].Label, stataLabelSize)

\* descriptors emitted for two fields: the first has a name, a format and a
\* label longer than their slots, the second has shorter ones
C11_Witness ==
    /\ InSession
    /\ ret = [op |-> "BeginWrite", err |-> "nil"]
    /\ EmittedNumVars = 2
    /\ Len(fields[1].Name) > stataVarSize
    /\ Len(fields[1].Format) > stataFmtSize
    /\ Len(fields[1].Label) > stataLabelSize
    /\ Len(fields[2].Name) \in 1..(stataVarSize - 1)
    /\ Len(fields[2].Format) \in 1..(stataFmtSize - 1)
    /\ Len(fields[2].Label) \in 1..(stataLabelSize - 1)

----------------------------------------------------------------------------
(* C12 *)

\* ExtractFields has run on arg (NewFileFromStruct hands its argument to it and
\* returns its error)
Extracted == ret.op = "NewFileFromStruct"

\* the exported attributes of a struct, in declaration order
ExportedAttrs(attrs) == SelectSeq(attrs, LAMBDA a : a.exported)

\* the name the extraction gives an attribute: the name tag, or else the
\* attribute name in lower case
C13_Name(a) ==
    IF \E i \in 1..Len(a.tag) : a.tag[i].key = "name" /\ a.tag[i].val # <<>>
    THEN TagGet(a.tag, "name")
    ELSE [i \in 1..Len(a.Name) |-> IF a.Name[i] \in 65..90 THEN a.Name[i] + 32 ELSE a.Name[i]]

\* C12: for every input that is not a struct or a pointer to a struct (the nil
\* interface, a nil pointer to a struct, a pointer to something else, anything
\* else) ExtractFields returns the not-a-struct error and no fields, and does
\* not abort; for a struct it does not abort either, and when it returns nil the
\* fields are those of the exported attributes, one each, in declaration order.
C12_NotAStructIsAnError ==
    Extracted =>
        /\ ret.err # "panic"
        /\ arg.shape \notin {"struct", "ptr"} => (ret.err = "notstruct" /\ fields = <<>>)
        /\ (arg.shape \in {"struct", "ptr"} /\ ret.err = "nil") =>
              LET ex == ExportedAttrs(arg.attrs)
              IN  /\ Len(fields) = Len(ex)
                  /\ \A i \in 1..Len(ex) : fields[i].Name = C13_Name(ex[i])

----------------------------------------------------------------------------
(* C13 *)

\* the label the extraction gives an attribute: the label tag, or else its name
C13_Label(a) ==
    IF \E i \in 1..Len(a.tag) : a.tag[i].key = "label" /\ a.tag[i].val # <<>>
    THEN TagGet(a.tag, "label")
    ELSE C13_Name(a)

\* the type code of a typ tag: 251..255 for byte, int, long, float, double, N
\* for strN with N in 1..244, and 0 for anything else
C13_TypCode(t) ==
    LET digits == SubSeq(t, 4, Len(t))
    IN  CASE t = <<98, 121, 116, 101>> -> 251
          [] t = <<105, 110, 116>> -> 252
          [] t = <<108, 111, 110, 103>> -> 253
          [] t = <<102, 108, 111, 97, 116>> -> 254
          [] t = <<100, 111, 117, 98, 108, 101>> -> 255
          [] /\ Len(t) > 3
             /\ SubSeq(t, 1, 3) = <<115, 116, 114>>
             /\ \A i \in 1..Len(digits) : digits[i] \in 48..57
             /\ DigitsValue(digits) \in 1..244 -> DigitsValue(digits)
          [] OTHER -> 0

\* the type code inferred from a Go kind, 0 when none is
C13_KindCode(kind) ==
    CASE kind = "int8" -> 251
      [] kind = "int16" -> 252
      [] kind \in {"int32", "int64"} -> 253
      [] kind = "float32" -> 254
      [] kind = "float64" -> 255
      [] OTHER -> 0

\* the type code of an attribute: from its typ tag, or else from its kind
C13_Code(a) ==
    IF \E i \in 1..Len(a.tag) : a.tag[i].key = "typ" /\ a.tag[i].val # <<>>
    THEN C13_TypCode(TagGet(a.tag, "typ"))
    ELSE C13_KindCode(a.kind)

\* C13: for a struct or a pointer to one, when some exported attribute has no
\* type code (a string or another kind without typ, an unknown typ, strN with N
\* outside 1..244) the extraction returns an error and no fields; otherwise it
\* returns one field per exported attribute, whose Name is the name tag or the
\* lowercased attribute name, whose Label is the label tag or that Name, and
\* whose type code is that of the typ tag or the one inferred from the kind.
C13_Defaulting ==
    LET ex == ExportedAttrs(arg.attrs)
    IN  (Extracted /\ arg.shape \in {"struct", "ptr"} /\ ex # <<>>) =>
            IF \E i \in 1..Len(ex) : C13_Code(ex[i]) = 0
            THEN ret.err = "field" /\ fields = <<>>
            ELSE /\ ret.err = "nil"
                 /\ Len(fields) = Len(ex)
                 /\ \A i \in 1..Len(ex) :
                       /\ fields[i].Name = C13_Name(ex[i])
                       /\ fields[i].Label = C13_Label(ex[i])
                       /\ fields[i].FieldType = C13_Code(ex[i])

----------------------------------------------------------------------------
(* C14 *)

\* the Append operations
AppendOps ==
    {"AppendByte", "AppendInt", "AppendLong", "AppendFloat", "AppendDouble",
     "AppendStringN", "AppendBytesN"}

\* the bytes each Append of a row puts in the record: Byte(-1), Int(999),
\* Long(-2), Float(6.5), Double(6.5) and the 2-byte text "bc", least
\* significant byte first
C14_Bytes(op) ==
    CASE op = "AppendByte" -> <<255>>
      [] op = "AppendInt" -> <<231, 3>>
      [] op = "AppendLong" -> <<254, 255, 255, 255>>
      [] op = "AppendFloat" -> <<0, 0, 208, 64>>
      [] op = "AppendDouble" -> <<0, 0, 0, 0, 0, 0, 26, 64>>
      [] OTHER -> <<98, 99>>

\* this step is an Append: it returns normally, the value is in the record
\* buffer at the offset before the step, and the offset has advanced by the width
C14_AppendStep ==
    LET bs == C14_Bytes(ret'.op)
    IN  /\ ret'.err = "nil"
        /\ offset' = offset + Len(bs)
        /\ offset' <= Len(recBuf')
        /\ SubSeq(recBuf', offset + 1, offset') = bs

\* this step is a RecordEnd: n more bytes are in the sink, the offset is 0 and
\* NumObs is one more
C14_RecordEndStep(n) ==
    /\ ret'.err = "nil"
    /\ Len(w'.buf) = Len(w.buf) + n
    /\ offset' = 0
    /\ NumObs' = NumObs + 1

NoFieldAddedInSession == EmittedNumVars = Len(fields)

----------------------------------------------------------------------------
(* C15 *)

\* this step is an EndWrite that ends a session, returning err
EndsSession(err) == InSession /\ ret' = [op |-> "EndWrite", err |-> err]

----------------------------------------------------------------------------
(* C16 *)

\* C16: in a session whose fields were all defined before BeginWrite, a call of
\* AppendStringN(v, 2) or AppendBytesN(v, 2) that returns, for a v shorter than,
\* as long as or longer than 2 bytes, advances the offset by 2 and changes no
\* byte of the record buffer outside [offset, offset + 2): not the bytes of the
\* fields already appended, nor those of the fields that follow.
C16_OnlyOwnBytesChange ==
    [][ ( /\ InSession
          /\ NoFieldAddedInSession
          /\ ret'.op \in {"AppendStringN", "AppendBytesN"}
          /\ ret'.err = "nil" ) =>
          /\ offset' = offset + 2
          /\ Len(recBuf') = Len(recBuf)
          /\ \A i \in 1..Len(recBuf) :
                i \notin (offset + 1)..(offset + 2) => recBuf'[i] = recBuf[i] ]_vars

====
